---- MODULE Spec2Model ----
(***************************************************************************)
(* In-memory Thing / Channel repositories of mainflux (package mocks):     *)
(* two mutex-guarded tables, the Channel-side connection index cconns,     *)
(* the Thing-side connection index tconns, and the Go channel that carries *)
(* Connection events from the Channel repository to the goroutine started  *)
(* by NewThingRepository.                                                  *)
(*                                                                         *)
(* Every exported method is a call of one caller process.  A call is cut   *)
(* into steps at the points where the Go code can block or where it        *)
(* touches shared memory without holding a mutex: acquiring a mutex, the   *)
(* critical section up to the (deferred) unlock, a send on the channel,    *)
(* and each unlocked access to cconns.                                     *)
(***************************************************************************)
EXTENDS Integers, Sequences, FiniteSets, TLC

VARIABLES
    things,    \* trm.things  : thing ID -> Thing
    tcounter,  \* trm.counter
    tconns,    \* trm.tconns  : channel ID -> (thing ID -> Thing)
    tmu,       \* holder of trm.mu
    channels,  \* crm.channels: channel ID -> Channel
    ccounter,  \* crm.counter
    cconns,    \* crm.cconns  : thing ID -> (channel ID -> Channel)
    cmu,       \* holder of crm.mu
    bridge,    \* buffered content of the chan Connection
    cap,       \* capacity the chan Connection was made with
    cpc,       \* position of the consumer goroutine
    conn,      \* the consumer's loop variable conn
    pc,        \* position of every caller
    call,      \* the call every caller is executing
    loc,       \* the locals of that call
    ret,       \* history: the return made by the last step, if it made one
    ncalls,    \* number of calls started
    inflight,  \* history: events sent and not yet applied, in emission order
    cache      \* channelCacheMock.channels

vars == <<things, tcounter, tconns, tmu, channels, ccounter, cconns, cmu,
          bridge, cap, cpc, conn, pc, call, loc, ret, ncalls, inflight, cache>>

thingVars == <<things, tcounter>>
chanVars == <<channels, ccounter>>
consumerVars == <<cpc, conn>>

----------------------------------------------------------------------------
(* Bounds *)

MaxCalls == 4
MaxBatch == 1
MaxIDs == 2
MaxCap == 2
MaxTableCalls == 3
MaxSaveBatch == 2
MaxStored == 3
MaxPageCalls == 3
MaxOffset == 1
MaxLimit == 2
MaxRemoveBatch == 3
MaxSeqCalls == 5
MaxRefCalls == 5

(* Processes *)

Callers == {1, 2}
Consumer == 0
Free == 0 - 1

(* Errors *)

ErrConflict == "conflict"
ErrNotFound == "not found"
ErrAuthorization == "authorization"
Ok == "nil"

----------------------------------------------------------------------------
(* Go maps *)

Put(m, k, v) == [x \in (DOMAIN m) \cup {k} |-> IF x = k THEN v ELSE m[x]]
Delete(m, k) == [x \in (DOMAIN m) \ {k} |-> m[x]]
EmptyMap == [x \in {} |-> x]

(* fmt.Sprintf("%03d", n): the decimal digits of n, left-padded with zeros *)
(* to a width of at least three.                                           *)
RECURSIVE Digits(_)
Digits(n) == IF n < 10 THEN <<n>> ELSE Append(Digits(n \div 10), n % 10)

RECURSIVE PadLeft(_, _)
PadLeft(s, w) == IF Len(s) >= w THEN s ELSE PadLeft(<<0>> \o s, w)

SprintfUnpadded(n) == Digits(n)

Sprintf03(n) == PadLeft(Digits(n), 3)

(* uuid.ParseID: the numeric ordinal an identifier carries, "007" -> 7 *)
RECURSIVE ParseID(_)
ParseID(id) ==
    IF id = <<>> THEN 0 ELSE 10 * ParseID(SubSeq(id, 1, Len(id) - 1)) + id[Len(id)]

NoID == <<>>

(* Records *)

Thing(id, gr, name, key, md) ==
    [ID |-> id, GroupID |-> gr, Name |-> name, Key |-> key, Metadata |-> md]

ZeroThing == Thing(NoID, "", "", "", "")

Channel(id, gr, name, md) ==
    [ID |-> id, GroupID |-> gr, Name |-> name, Metadata |-> md]

ZeroChannel == Channel(NoID, "", "", "")

Connection(chID, th, connected) ==
    [chanID |-> chID, thing |-> th, connected |-> connected]

ZeroConnection == Connection(NoID, ZeroThing, FALSE)

(* things.PageMetadata as a query, and the page a retrieval returns; the *)
(* zero page is things.ThingsPage{} / things.ChannelsPage{}.             *)
PageMetadata(offset, limit, name, order, dir) ==
    [Offset |-> offset, Limit |-> limit, Name |-> name, Order |-> order, Dir |-> dir]

ZeroPageMetadata == PageMetadata(0, 0, "", "", "")

Page(items, total, pm) ==
    [items |-> items, Total |-> total, Offset |-> pm.Offset, Limit |-> pm.Limit]

ZeroPage == Page(<<>>, 0, ZeroPageMetadata)

(* uint64: a value is kept as the representative of least magnitude of   *)
(* its class modulo 2^64, so 2^64 - 1 is -1.  Addition modulo 2^64 is    *)
(* then the addition of representatives, and in the unsigned order the   *)
(* non-negative representatives come before the negative ones.           *)
MaxUint64 == 0 - 1

UAdd(a, b) == a + b

ULess(a, b) == IF (a >= 0) = (b >= 0) THEN a < b ELSE a >= 0

(* id >= first && id < last *)
InWindowClosed(id, first, last) == ~ULess(id, first) /\ ~ULess(last, id)

InWindow(id, first, last) == ~ULess(id, first) /\ ULess(id, last)

(* A range over a map, or over the entries of a map that pass a test: *)
(* each of them once, in an order the runtime chooses.                *)
Orders(S) ==
    {e \in [1..Cardinality(S) -> S] : \A i, j \in DOMAIN e : i # j => e[i] # e[j]}

(* sortThings / sortChannels: by Name, then by ID, when the query names  *)
(* the field "name", descending when the direction is "desc"; any other  *)
(* field leaves the input order.                                         *)
Names == <<"n1", "n2">>

NameLess(a, b) == \E i, j \in DOMAIN Names : Names[i] = a /\ Names[j] = b /\ i < j

RECURSIVE LexLess(_, _)
LexLess(a, b) ==
    IF a = <<>> THEN b # <<>>
    ELSE IF b = <<>> THEN FALSE
    ELSE IF Head(a) = Head(b) THEN LexLess(Tail(a), Tail(b))
    ELSE Head(a) < Head(b)

Before(a, b) == NameLess(a.Name, b.Name) \/ (a.Name = b.Name /\ LexLess(a.ID, b.ID))

SortBy(items, desc) ==
    LET n == Len(items)
        o == CHOOSE o \in Orders(1..n) :
                 \A i, j \in 1..n :
                     i < j => IF desc
                              THEN ~Before(items[o[i]], items[o[j]])
                              ELSE ~Before(items[o[j]], items[o[i]])
    IN  [i \in 1..n |-> items[o[i]]]

SortThings(pm, items) ==
    IF pm.Order = "name" THEN SortBy(items, pm.Dir = "desc") ELSE items

SortChannels(pm, items) ==
    IF pm.Order = "name" THEN SortBy(items, pm.Dir = "desc") ELSE items

(* RetrieveByAdmin, lines 261-268 and 423-430: i counts the entries the *)
(* range has yielded.                                                   *)
RECURSIVE AdminLoop(_, _, _, _)
AdminLoop(tbl, e, pm, i) ==
    IF i >= Len(e)
    THEN <<>>
    ELSE (IF ~ULess(i, pm.Offset) /\ ULess(i, UAdd(pm.Offset, pm.Limit))
          THEN <<tbl[e[i + 1]]>>
          ELSE <<>>) \o AdminLoop(tbl, e, pm, i + 1)

(* RetrieveByGroupIDs, lines 128-137 and 381-390 *)
GroupItems(tbl, grID, first, last) ==
    {k \in DOMAIN tbl :
        tbl[k].GroupID = grID /\ InWindow(ParseID(tbl[k].ID), first, last)}

RECURSIVE GroupLoop(_, _, _, _, _)
GroupLoop(tbl, groupIDs, first, last, g) ==
    IF g > Len(groupIDs)
    THEN {<<>>}
    ELSE {[i \in DOMAIN o |-> tbl[o[i]]] \o rest :
             o \in Orders(GroupItems(tbl, groupIDs[g], first, last)),
             rest \in GroupLoop(tbl, groupIDs, first, last, g + 1)}

(* lines 139-146 and 392-399 *)
NameFilter(pm, items) ==
    IF pm.Name # "" THEN SelectSeq(items, LAMBDA v : v.Name = pm.Name) ELSE items

----------------------------------------------------------------------------
(* thingRepositoryMock: the critical sections as functions of the table *)

KeyTakenNever(tbl, key) == FALSE

KeyTaken(tbl, key) == \E id \in DOMAIN tbl : tbl[id].Key = key

RECURSIVE ThingSaveLoop(_, _, _, _)
ThingSaveLoop(tbl, cnt, ths, i) ==
    IF i > Len(ths)
    THEN [things |-> tbl, counter |-> cnt, out |-> ths, err |-> Ok]
    ELSE IF KeyTaken(tbl, ths[i].Key)
         THEN [things |-> tbl, counter |-> cnt, out |-> <<>>, err |-> ErrConflict]
         ELSE LET c == cnt + 1
                  t == IF ths[i].ID = NoID
                       THEN [ths[i] EXCEPT !.ID = Sprintf03(c)]
                       ELSE ths[i]
              IN  ThingSaveLoop(Put(tbl, t.ID, t), c, [ths EXCEPT ![i] = t], i + 1)

ThingSave(tbl, cnt, ths) == ThingSaveLoop(tbl, cnt, ths, 1)

ThingUpdate(tbl, th) ==
    IF th.ID \notin DOMAIN tbl
    THEN [things |-> tbl, err |-> ErrNotFound]
    ELSE [things |-> Put(tbl, th.ID, th), err |-> Ok]

ThingUpdateKeyKeepsKey(tbl, id, val) ==
    IF id \notin DOMAIN tbl
    THEN [things |-> tbl, err |-> ErrNotFound]
    ELSE [things |-> tbl, err |-> Ok]

ThingUpdateKey(tbl, id, val) ==
    IF KeyTaken(tbl, val)
    THEN [things |-> tbl, err |-> ErrConflict]
    ELSE IF id \notin DOMAIN tbl
         THEN [things |-> tbl, err |-> ErrNotFound]
         ELSE [things |-> Put(tbl, id, [tbl[id] EXCEPT !.Key = val]), err |-> Ok]

ThingRetrieveByID(tbl, id) ==
    IF \E k \in DOMAIN tbl : tbl[k].ID = id
    THEN [thing |-> CHOOSE t \in {tbl[k] : k \in DOMAIN tbl} : t.ID = id, err |-> Ok]
    ELSE [thing |-> ZeroThing, err |-> ErrNotFound]

(* The range over the map stops at the first Thing with the key; which one *)
(* is first is up to the map's iteration order.                            *)
ThingRetrieveByKey(tbl, key) ==
    IF KeyTaken(tbl, key)
    THEN {[id |-> tbl[k].ID, err |-> Ok] : k \in {x \in DOMAIN tbl : tbl[x].Key = key}}
    ELSE {[id |-> NoID, err |-> ErrNotFound]}

RECURSIVE ThingRemoveLoop(_, _, _)
ThingRemoveLoop(tbl, ids, i) ==
    IF i > Len(ids)
    THEN [things |-> tbl, err |-> Ok]
    ELSE IF ids[i] \notin DOMAIN tbl
         THEN [things |-> tbl, err |-> ErrNotFound]
         ELSE ThingRemoveLoop(Delete(tbl, ids[i]), ids, i + 1)

ThingRemoveRollback(tbl, ids) ==
    LET r == ThingRemoveLoop(tbl, ids, 1)
    IN  IF r.err = Ok THEN r ELSE [things |-> tbl, err |-> r.err]

ThingRemove(tbl, ids) == ThingRemoveLoop(tbl, ids, 1)

ThingRetrieveByGroupIDsUnbounded(tbl, cnt, groupIDs, pm) ==
    {Page([i \in DOMAIN o |-> tbl[o[i]]], cnt, pm) : o \in Orders(DOMAIN tbl)}

ThingRetrieveByGroupIDs(tbl, cnt, groupIDs, pm) ==
    IF pm.Limit = 0
    THEN {ZeroPage}
    ELSE LET first == UAdd(pm.Offset, 1)
             last == UAdd(first, pm.Limit)
         IN  {Page(SortThings(pm, NameFilter(pm, s)), cnt, pm) :
                 s \in GroupLoop(tbl, groupIDs, first, last, 1)}

ThingRetrieveByChannelBounded(tc, cnt, chID, pm) ==
    LET first == UAdd(pm.Offset, 1)
        last == UAdd(first, pm.Limit)
        conns == IF chID \in DOMAIN tc THEN tc[chID] ELSE EmptyMap
        hits == {t \in DOMAIN conns : InWindow(ParseID(conns[t].ID), first, last)}
    IN  {Page(SortThings(pm, [i \in DOMAIN o |-> conns[o[i]]]), cnt, pm) :
            o \in Orders(hits)}

ThingRetrieveByChannel(tc, cnt, chID, pm) ==
    IF ULess(pm.Limit, 0)
    THEN {ZeroPage}
    ELSE LET first == UAdd(pm.Offset, 1)
             last == UAdd(first, pm.Limit)
             conns == IF chID \in DOMAIN tc THEN tc[chID] ELSE EmptyMap
             hits == {t \in DOMAIN conns :
                         \/ InWindow(ParseID(conns[t].ID), first, last)
                         \/ pm.Limit = 0}
         IN  {Page(SortThings(pm, [i \in DOMAIN o |-> conns[o[i]]]), cnt, pm) :
                 o \in Orders(hits)}

ThingRetrieveByAdmin(tbl, cnt, pm) ==
    {Page(AdminLoop(tbl, e, pm, 0), cnt, pm) : e \in Orders(DOMAIN tbl)}

----------------------------------------------------------------------------
(* channelRepositoryMock: the critical sections and the unlocked accesses *)
(* to cconns as functions of the maps                                     *)

RECURSIVE ChannelSaveLoop(_, _, _, _)
ChannelSaveLoop(tbl, cnt, chs, i) ==
    IF i > Len(chs)
    THEN [channels |-> tbl, counter |-> cnt, out |-> chs, err |-> Ok]
    ELSE LET c == cnt + 1
             ch == IF chs[i].ID = NoID
                   THEN [chs[i] EXCEPT !.ID = Sprintf03(c)]
                   ELSE chs[i]
         IN  ChannelSaveLoop(Put(tbl, ch.ID, ch), c, [chs EXCEPT ![i] = ch], i + 1)

ChannelSave(tbl, cnt, chs) == ChannelSaveLoop(tbl, cnt, chs, 1)

ChannelRetrieveByID(tbl, id) ==
    IF \E k \in DOMAIN tbl : tbl[k].ID = id
    THEN [channel |-> CHOOSE c \in {tbl[k] : k \in DOMAIN tbl} : c.ID = id, err |-> Ok]
    ELSE [channel |-> ZeroChannel, err |-> ErrNotFound]

ChannelRetrieveByGroupIDs(tbl, cnt, groupIDs, pm) ==
    IF pm.Limit = 0
    THEN {ZeroPage}
    ELSE LET first == UAdd(pm.Offset, 1)
             last == UAdd(first, pm.Limit)
         IN  {Page(SortChannels(pm, NameFilter(pm, s)), cnt, pm) :
                 s \in GroupLoop(tbl, groupIDs, first, last, 1)}

ChannelRetrieveByAdmin(tbl, cnt, pm) ==
    IF ULess(pm.Limit, 0)
    THEN {ZeroPage}
    ELSE {Page(AdminLoop(tbl, e, pm, 0), cnt, pm) : e \in Orders(DOMAIN tbl)}

(* Remove, lines 470-472: delete(crm.cconns[thk], id) for every thk *)
StripChannel(cc, id) == [thk \in DOMAIN cc |-> Delete(cc[thk], id)]

(* Connect, line 489 *)
ConnectConflictNever(cc, thID) == FALSE

ConnectConflict(cc, thID) == thID \in DOMAIN cc

(* Connect, line 504 *)
ConnectPutNothing(cc, thID, chID, ch) == cc

ConnectPut(cc, thID, chID, ch) == Put(cc, thID, Put(cc[thID], chID, ch))

(* Disconnect, lines 512-518 *)
DisconnectCheck(cc, thID, chID) ==
    IF thID \notin DOMAIN cc
    THEN ErrNotFound
    ELSE IF chID \notin DOMAIN cc[thID] THEN ErrNotFound ELSE Ok

(* Disconnect, line 525 *)
DisconnectDelete(cc, thID, chID) == Put(cc, thID, Delete(cc[thID], chID))

HasThingByID(cc, chanID, thingID) ==
    IF thingID \notin DOMAIN cc
    THEN ErrAuthorization
    ELSE IF chanID \notin DOMAIN cc[thingID] THEN ErrAuthorization ELSE Ok

(* RetrieveConnByThingKey, lines 537-544 *)
ConnByThingLookup(cc, tid) ==
    IF tid \notin DOMAIN cc
    THEN ErrAuthorization
    ELSE IF Cardinality(DOMAIN cc[tid]) = 0 THEN ErrAuthorization ELSE Ok

(* thingRepositoryMock.connect / disconnect, applied by the consumer *)
ThingConnectNothing(tc, c) == tc

ThingConnect(tc, c) ==
    LET m == IF c.chanID \in DOMAIN tc THEN tc[c.chanID] ELSE EmptyMap
    IN  Put(tc, c.chanID, Put(m, c.thing.ID, c.thing))

ThingDisconnect(tc, c) ==
    IF c.thing.ID = NoID
    THEN Delete(tc, c.chanID)
    ELSE IF c.chanID \in DOMAIN tc
         THEN Put(tc, c.chanID, Delete(tc[c.chanID], c.thing.ID))
         ELSE tc

(* for conn := range conns: the next event is the oldest one buffered *)
DequeueNewest(q) == [msg |-> q[Len(q)], rest |-> SubSeq(q, 1, Len(q) - 1)]

Dequeue(q) == [msg |-> Head(q), rest |-> Tail(q)]

(* defer mu.Unlock() *)
UnlockThings(p) == Free

UnlockChannelsNever(p) == p

UnlockChannels(p) == Free

----------------------------------------------------------------------------
(* Calls *)

Call(op, chID, ids, ths, chs, th, key) ==
    [op |-> op, chID |-> chID, ids |-> ids, ths |-> ths, chs |-> chs,
     th |-> th, key |-> key, groupIDs |-> <<>>, pm |-> ZeroPageMetadata]

Query(op, chID, groupIDs, pm) ==
    [Call(op, chID, <<>>, <<>>, <<>>, ZeroThing, "")
        EXCEPT !.groupIDs = groupIDs, !.pm = pm]

NoCall == Call("", NoID, <<>>, <<>>, <<>>, ZeroThing, "")

Loc(i, ch, th, tid, mk) == [i |-> i, ch |-> ch, th |-> th, tid |-> tid, mk |-> mk]

NoLoc == Loc(1, ZeroChannel, ZeroThing, NoID, FALSE)

Ret(p, c, err, val) == [p |-> p, call |-> c, err |-> err, val |-> val]

NoRet == Ret(Free, NoCall, "", <<>>)

(* Inputs *)

IDs == {Sprintf03(n) : n \in 1..MaxIDs}

Batches(S) == UNION {[1..n -> S] : n \in 1..MaxBatch}

Keys == <<"k1", "k2", "k3">>

(* The batches a caller saves while connections are made: the first n of *)
(* the new Things / Channels below, none with an ID of the caller's.     *)
NewThing(i) == Thing(NoID, "g1", "n1", Keys[i], "m1")

NewChannel(i) == Channel(NoID, "g1", "n1", "m1")

ThingBatches == {[i \in 1..n |-> NewThing(i)] : n \in 1..MaxIDs}

ChannelBatches == {[i \in 1..n |-> NewChannel(i)] : n \in 1..MaxIDs}

ConnCalls ==
         {Call("ThingSave", NoID, <<>>, b, <<>>, ZeroThing, "") :
              b \in ThingBatches}
    \cup {Call("ChannelSave", NoID, <<>>, <<>>, b, ZeroThing, "") :
              b \in ChannelBatches}
    \cup {Call("ChannelRemove", NoID, b, <<>>, <<>>, ZeroThing, "") :
              b \in Batches(IDs)}
    \cup {Call("Connect", c, b, <<>>, <<>>, ZeroThing, "") :
              c \in IDs, b \in Batches(IDs)}
    \cup {Call("Disconnect", c, b, <<>>, <<>>, ZeroThing, "") :
              c \in IDs, b \in Batches(IDs)}
    \cup {Call("HasThingByID", c, <<t>>, <<>>, <<>>, ZeroThing, "") :
              c \in IDs, t \in IDs}
    \cup {Call("RetrieveConnByThingKey", NoID, <<>>, <<>>, <<>>, ZeroThing, k) :
              k \in {Keys[i] : i \in 1..MaxIDs}}

(* The first position of a call *)
Entry(op) ==
    CASE op = "Connect" -> "ConnectChannel"
      [] op = "Disconnect" -> "DisconnectCheck"
      [] op = "RetrieveConnByThingKey" -> "ConnByKeyThing"
      [] OTHER -> op

(* The methods whose first statement is trm.mu.Lock() / crm.mu.Lock() *)
LocksThingsFirst ==
    {"ThingSave", "ThingUpdate", "ThingUpdateKey", "ThingRemove",
     "RetrieveConnByThingKey", "ThingRetrieveByGroupIDs",
     "ThingRetrieveByChannel", "ThingRetrieveByAdmin"}

LocksChannelsFirst ==
    {"ChannelSave", "ChannelRemove", "Connect", "ChannelRetrieveByGroupIDs",
     "ChannelRetrieveByAdmin"}

(* Positions inside a call at which the caller is about to lock trm.mu / *)
(* crm.mu: Connect calls crm.things.RetrieveByID in its loop; no method  *)
(* locks crm.mu after its first statement.                               *)
WaitsThings == {"ConnectThing"}

WaitsChannels == {}

(* The position inside the critical section reached by locking *)
Locked(l) ==
    CASE l = "ThingSave" -> "ThingSaveLocked"
      [] l = "ThingUpdate" -> "ThingUpdateLocked"
      [] l = "ThingUpdateKey" -> "ThingUpdateKeyLocked"
      [] l = "ThingRemove" -> "ThingRemoveLocked"
      [] l = "ConnectThing" -> "ConnectThingLocked"
      [] l = "ConnByKeyThing" -> "ConnByKeyThingLocked"
      [] l = "ChannelSave" -> "ChannelSaveLocked"
      [] l = "ChannelRemove" -> "ChannelRemoveLocked"
      [] l = "ConnectChannel" -> "ConnectChannelLocked"
      [] l = "ThingRetrieveByGroupIDs" -> "ThingRetrieveByGroupIDsLocked"
      [] l = "ThingRetrieveByChannel" -> "ThingRetrieveByChannelLocked"
      [] l = "ThingRetrieveByAdmin" -> "ThingRetrieveByAdminLocked"
      [] l = "ChannelRetrieveByGroupIDs" -> "ChannelRetrieveByGroupIDsLocked"
      [] l = "ChannelRetrieveByAdmin" -> "ChannelRetrieveByAdminLocked"

----------------------------------------------------------------------------
(* The chan Connection *)

CanSend == IF cap = 0 THEN cpc = "recv" /\ bridge = <<>> ELSE Len(bridge) < cap

(* With no buffer the send completes by handing the event to the consumer, *)
(* which is blocked in the range over the channel.                         *)
Send(msg) ==
    /\ CanSend
    /\ IF cap = 0
       THEN /\ conn' = msg
            /\ cpc' = "lock"
            /\ UNCHANGED bridge
       ELSE /\ bridge' = Append(bridge, msg)
            /\ UNCHANGED consumerVars
    /\ inflight' = Append(inflight, msg)

----------------------------------------------------------------------------
(* Steps of a caller *)

Goto(p, l) == pc' = [pc EXCEPT ![p] = l]

Return(p, err, val) ==
    /\ pc' = [pc EXCEPT ![p] = "idle"]
    /\ ret' = Ret(p, call[p], err, val)
    /\ call' = [call EXCEPT ![p] = NoCall]
    /\ loc' = [loc EXCEPT ![p] = NoLoc]

Continue(p, l) == Goto(p, l) /\ ret' = NoRet /\ UNCHANGED call

(* A call begins with its first statement.  For the methods that open   *)
(* with mu.Lock() that is the acquisition of the mutex: until then the  *)
(* call has touched nothing, so a caller blocked there is a caller that *)
(* has not begun.                                                       *)
Start(p, calls, max) ==
    /\ pc[p] = "idle"
    /\ ncalls < max
    /\ \E c \in calls :
          /\ call' = [call EXCEPT ![p] = c]
          /\ IF c.op \in LocksThingsFirst
             THEN /\ tmu = Free
                  /\ tmu' = p
                  /\ cmu' = cmu
                  /\ pc' = [pc EXCEPT ![p] = Locked(Entry(c.op))]
             ELSE IF c.op \in LocksChannelsFirst
                  THEN /\ cmu = Free
                       /\ cmu' = p
                       /\ tmu' = tmu
                       /\ pc' = [pc EXCEPT ![p] = Locked(Entry(c.op))]
                  ELSE /\ pc' = [pc EXCEPT ![p] = Entry(c.op)]
                       /\ UNCHANGED <<tmu, cmu>>
    /\ ncalls' = ncalls + 1
    /\ loc' = [loc EXCEPT ![p] = NoLoc]
    /\ UNCHANGED <<thingVars, tconns, chanVars, cconns, bridge, cap, cache,
                   consumerVars, inflight>>
    /\ ret' = NoRet

(* crm.things.RetrieveByID inside Connect, line 492: trm.mu.Lock() *)
LockThings(p) ==
    /\ pc[p] \in WaitsThings
    /\ tmu = Free
    /\ tmu' = p
    /\ Goto(p, Locked(pc[p]))
    /\ UNCHANGED <<thingVars, tconns, chanVars, cconns, cmu, bridge, cap, cache,
                   consumerVars, call, loc, ncalls, inflight>>
    /\ ret' = NoRet

(* thingRepositoryMock.Save, lines 46-65 *)
ThingSaveStep(p) ==
    /\ pc[p] = "ThingSaveLocked"
    /\ LET r == ThingSave(things, tcounter, call[p].ths)
       IN  /\ things' = r.things
           /\ tcounter' = r.counter
           /\ Return(p, r.err, r.out)
    /\ tmu' = UnlockThings(p)
    /\ UNCHANGED <<tconns, chanVars, cconns, cmu, bridge, cap, cache, consumerVars,
                   ncalls, inflight>>

(* thingRepositoryMock.Update, lines 67-78 *)
ThingUpdateStep(p) ==
    /\ pc[p] = "ThingUpdateLocked"
    /\ LET r == ThingUpdate(things, call[p].th)
       IN  /\ things' = r.things
           /\ Return(p, r.err, <<>>)
    /\ tmu' = UnlockThings(p)
    /\ UNCHANGED <<tcounter, tconns, chanVars, cconns, cmu, bridge, cap, cache,
                   consumerVars, ncalls, inflight>>

(* thingRepositoryMock.UpdateKey, lines 80-99 *)
ThingUpdateKeyStep(p) ==
    /\ pc[p] = "ThingUpdateKeyLocked"
    /\ LET r == ThingUpdateKey(things, call[p].ids[1], call[p].key)
       IN  /\ things' = r.things
           /\ Return(p, r.err, <<>>)
    /\ tmu' = UnlockThings(p)
    /\ UNCHANGED <<tcounter, tconns, chanVars, cconns, cmu, bridge, cap, cache,
                   consumerVars, ncalls, inflight>>

(* thingRepositoryMock.Remove, lines 197-209 *)
ThingRemoveStep(p) ==
    /\ pc[p] = "ThingRemoveLocked"
    /\ LET r == ThingRemove(things, call[p].ids)
       IN  /\ things' = r.things
           /\ Return(p, r.err, <<>>)
    /\ tmu' = UnlockThings(p)
    /\ UNCHANGED <<tcounter, tconns, chanVars, cconns, cmu, bridge, cap, cache,
                   consumerVars, ncalls, inflight>>

(* thingRepositoryMock.RetrieveByGroupIDs, lines 114-160 *)
ThingRetrieveByGroupIDsStep(p) ==
    /\ pc[p] = "ThingRetrieveByGroupIDsLocked"
    /\ \E r \in ThingRetrieveByGroupIDs(things, tcounter, call[p].groupIDs, call[p].pm) :
          Return(p, Ok, r)
    /\ tmu' = UnlockThings(p)
    /\ UNCHANGED <<thingVars, tconns, chanVars, cconns, cmu, bridge, cap, cache,
                   consumerVars, ncalls, inflight>>

(* thingRepositoryMock.RetrieveByChannel, lines 162-195 *)
ThingRetrieveByChannelStep(p) ==
    /\ pc[p] = "ThingRetrieveByChannelLocked"
    /\ \E r \in ThingRetrieveByChannel(tconns, tcounter, call[p].chID, call[p].pm) :
          Return(p, Ok, r)
    /\ tmu' = UnlockThings(p)
    /\ UNCHANGED <<thingVars, tconns, chanVars, cconns, cmu, bridge, cap, cache,
                   consumerVars, ncalls, inflight>>

(* thingRepositoryMock.RetrieveByAdmin, lines 257-280 *)
ThingRetrieveByAdminStep(p) ==
    /\ pc[p] = "ThingRetrieveByAdminLocked"
    /\ \E r \in ThingRetrieveByAdmin(things, tcounter, call[p].pm) :
          Return(p, Ok, r)
    /\ tmu' = UnlockThings(p)
    /\ UNCHANGED <<thingVars, tconns, chanVars, cconns, cmu, bridge, cap, cache,
                   consumerVars, ncalls, inflight>>

(* channelRepositoryMock.Save, lines 327-340 *)
ChannelSaveStep(p) ==
    /\ pc[p] = "ChannelSaveLocked"
    /\ LET r == ChannelSave(channels, ccounter, call[p].chs)
       IN  /\ channels' = r.channels
           /\ ccounter' = r.counter
           /\ Return(p, r.err, r.out)
    /\ cmu' = UnlockChannels(p)
    /\ UNCHANGED <<thingVars, tconns, tmu, cconns, bridge, cap, cache, consumerVars,
                   ncalls, inflight>>

(* channelRepositoryMock.RetrieveByGroupIDs, lines 367-413 *)
ChannelRetrieveByGroupIDsStep(p) ==
    /\ pc[p] = "ChannelRetrieveByGroupIDsLocked"
    /\ \E r \in ChannelRetrieveByGroupIDs(channels, ccounter, call[p].groupIDs,
                                          call[p].pm) :
          Return(p, Ok, r)
    /\ cmu' = UnlockChannels(p)
    /\ UNCHANGED <<thingVars, tconns, tmu, chanVars, cconns, bridge, cap, cache,
                   consumerVars, ncalls, inflight>>

(* channelRepositoryMock.RetrieveByAdmin, lines 415-442 *)
ChannelRetrieveByAdminStep(p) ==
    /\ pc[p] = "ChannelRetrieveByAdminLocked"
    /\ \E r \in ChannelRetrieveByAdmin(channels, ccounter, call[p].pm) :
          Return(p, Ok, r)
    /\ cmu' = UnlockChannels(p)
    /\ UNCHANGED <<thingVars, tconns, tmu, chanVars, cconns, bridge, cap, cache,
                   consumerVars, ncalls, inflight>>

(* channelRepositoryMock.Remove, lines 459-480.  One pass of the loop up *)
(* to the send (lines 463-472); the caller holds crm.mu throughout.       *)
ChannelRemoveStep(p) ==
    /\ pc[p] = "ChannelRemoveLocked"
    /\ LET ids == call[p].ids
           i == loc[p].i
       IN  IF i > Len(ids)
           THEN /\ Return(p, Ok, <<>>)
                /\ cmu' = UnlockChannels(p)
                /\ UNCHANGED <<channels, cconns>>
           ELSE IF ids[i] \notin DOMAIN channels
                THEN /\ Return(p, ErrNotFound, <<>>)
                     /\ cmu' = UnlockChannels(p)
                     /\ UNCHANGED <<channels, cconns>>
                ELSE /\ channels' = Delete(channels, ids[i])
                     /\ cconns' = StripChannel(cconns, ids[i])
                     /\ Continue(p, "ChannelRemoveSend")
                     /\ UNCHANGED <<cmu, loc>>
    /\ UNCHANGED <<thingVars, tconns, tmu, ccounter, bridge, cap, cache, consumerVars,
                   ncalls, inflight>>

(* lines 473-476, and the return after the last pass *)
ChannelRemoveSend(p) ==
    /\ pc[p] = "ChannelRemoveSend"
    /\ Send(Connection(call[p].ids[loc[p].i], ZeroThing, FALSE))
    /\ IF loc[p].i = Len(call[p].ids)
       THEN /\ Return(p, Ok, <<>>)
            /\ cmu' = UnlockChannels(p)
       ELSE /\ Continue(p, "ChannelRemoveLocked")
            /\ loc' = [loc EXCEPT ![p].i = @ + 1]
            /\ UNCHANGED cmu
    /\ UNCHANGED <<thingVars, tconns, tmu, chanVars, cconns, cap, cache, ncalls>>

(* channelRepositoryMock.Connect, lines 483-486: crm.RetrieveByID *)
ConnectChannelStep(p) ==
    /\ pc[p] = "ConnectChannelLocked"
    /\ LET r == ChannelRetrieveByID(channels, call[p].chID)
       IN  IF r.err # Ok
           THEN Return(p, r.err, <<>>)
           ELSE IF Len(call[p].ids) = 0
                THEN Return(p, Ok, <<>>)
                ELSE /\ Continue(p, "ConnectCheck")
                     /\ loc' = [loc EXCEPT ![p].ch = r.channel]
    /\ cmu' = UnlockChannels(p)
    /\ UNCHANGED <<thingVars, tconns, tmu, chanVars, cconns, bridge, cap, cache,
                   consumerVars, ncalls, inflight>>

(* lines 488-491 *)
ConnectCheckStep(p) ==
    /\ pc[p] = "ConnectCheck"
    /\ IF ConnectConflict(cconns, call[p].ids[loc[p].i])
       THEN Return(p, ErrConflict, <<>>)
       ELSE Continue(p, "ConnectThing") /\ UNCHANGED loc
    /\ UNCHANGED <<thingVars, tconns, tmu, chanVars, cconns, cmu, bridge, cap, cache,
                   consumerVars, ncalls, inflight>>

(* lines 492-495: crm.things.RetrieveByID *)
ConnectThingStep(p) ==
    /\ pc[p] = "ConnectThingLocked"
    /\ LET r == ThingRetrieveByID(things, call[p].ids[loc[p].i])
       IN  IF r.err # Ok
           THEN Return(p, r.err, <<>>)
           ELSE /\ Continue(p, "ConnectSend")
                /\ loc' = [loc EXCEPT ![p].th = r.thing]
    /\ tmu' = UnlockThings(p)
    /\ UNCHANGED <<thingVars, tconns, chanVars, cconns, cmu, bridge, cap, cache,
                   consumerVars, ncalls, inflight>>

(* lines 496-500 *)
ConnectSend(p) ==
    /\ pc[p] = "ConnectSend"
    /\ Send(Connection(call[p].chID, loc[p].th, TRUE))
    /\ Continue(p, "ConnectProbe")
    /\ UNCHANGED <<thingVars, tconns, tmu, chanVars, cconns, cmu, cap, cache, loc, ncalls>>

(* line 501 *)
ConnectProbeStep(p) ==
    /\ pc[p] = "ConnectProbe"
    /\ loc' = [loc EXCEPT ![p].mk = (call[p].ids[loc[p].i] \notin DOMAIN cconns)]
    /\ Continue(p, "ConnectPut")
    /\ UNCHANGED <<thingVars, tconns, tmu, chanVars, cconns, cmu, bridge, cap, cache,
                   consumerVars, ncalls, inflight>>

(* lines 502-504, and the return after the last pass *)
ConnectPutStep(p) ==
    /\ pc[p] = "ConnectPut"
    /\ LET thID == call[p].ids[loc[p].i]
           made == IF loc[p].mk THEN Put(cconns, thID, EmptyMap) ELSE cconns
       IN  cconns' = ConnectPut(made, thID, call[p].chID, loc[p].ch)
    /\ IF loc[p].i = Len(call[p].ids)
       THEN Return(p, Ok, <<>>)
       ELSE /\ Continue(p, "ConnectCheck")
            /\ loc' = [loc EXCEPT ![p].i = @ + 1, ![p].mk = FALSE]
    /\ UNCHANGED <<thingVars, tconns, tmu, chanVars, cmu, bridge, cap, cache,
                   consumerVars, ncalls, inflight>>

(* channelRepositoryMock.Disconnect, lines 511-518 *)
DisconnectCheckStep(p) ==
    /\ pc[p] = "DisconnectCheck"
    /\ IF Len(call[p].ids) = 0
       THEN Return(p, Ok, <<>>)
       ELSE LET e == DisconnectCheck(cconns, call[p].ids[loc[p].i], call[p].chID)
            IN  IF e # Ok
                THEN Return(p, e, <<>>)
                ELSE Continue(p, "DisconnectSend") /\ UNCHANGED loc
    /\ UNCHANGED <<thingVars, tconns, tmu, chanVars, cconns, cmu, bridge, cap, cache,
                   consumerVars, ncalls, inflight>>

(* lines 520-524 *)
DisconnectSend(p) ==
    /\ pc[p] = "DisconnectSend"
    /\ Send(Connection(call[p].chID,
                       [ZeroThing EXCEPT !.ID = call[p].ids[loc[p].i]], FALSE))
    /\ Continue(p, "DisconnectDelete")
    /\ UNCHANGED <<thingVars, tconns, tmu, chanVars, cconns, cmu, cap, cache, loc, ncalls>>

(* line 525, and the return after the last pass *)
DisconnectDeleteStep(p) ==
    /\ pc[p] = "DisconnectDelete"
    /\ cconns' = DisconnectDelete(cconns, call[p].ids[loc[p].i], call[p].chID)
    /\ IF loc[p].i = Len(call[p].ids)
       THEN Return(p, Ok, <<>>)
       ELSE /\ Continue(p, "DisconnectCheck")
            /\ loc' = [loc EXCEPT ![p].i = @ + 1]
    /\ UNCHANGED <<thingVars, tconns, tmu, chanVars, cmu, bridge, cap, cache,
                   consumerVars, ncalls, inflight>>

(* channelRepositoryMock.HasThingByID, lines 553-564 *)
HasThingByIDStep(p) ==
    /\ pc[p] = "HasThingByID"
    /\ Return(p, HasThingByID(cconns, call[p].chID, call[p].ids[1]), <<>>)
    /\ UNCHANGED <<thingVars, tconns, tmu, chanVars, cconns, cmu, bridge, cap, cache,
                   consumerVars, ncalls, inflight>>

(* channelRepositoryMock.RetrieveConnByThingKey, lines 532-535 *)
ConnByKeyThingStep(p) ==
    /\ pc[p] = "ConnByKeyThingLocked"
    /\ \E r \in ThingRetrieveByKey(things, call[p].key) :
          IF r.err # Ok
          THEN Return(p, r.err, <<>>)
          ELSE /\ Continue(p, "ConnByKeyLookup")
               /\ loc' = [loc EXCEPT ![p].tid = r.id]
    /\ tmu' = UnlockThings(p)
    /\ UNCHANGED <<thingVars, tconns, chanVars, cconns, cmu, bridge, cap, cache,
                   consumerVars, ncalls, inflight>>

(* lines 537-544 *)
ConnByKeyLookupStep(p) ==
    /\ pc[p] = "ConnByKeyLookup"
    /\ LET e == ConnByThingLookup(cconns, loc[p].tid)
       IN  IF e # Ok
           THEN Return(p, e, <<>>)
           ELSE Continue(p, "ConnByKeyRange") /\ UNCHANGED loc
    /\ UNCHANGED <<thingVars, tconns, tmu, chanVars, cconns, cmu, bridge, cap, cache,
                   consumerVars, ncalls, inflight>>

(* lines 546-550: the first channel the range over chans yields, if any *)
ConnByKeyRangeStep(p) ==
    /\ pc[p] = "ConnByKeyRange"
    /\ LET chans == cconns[loc[p].tid]
       IN  IF DOMAIN chans = {}
           THEN Return(p, ErrNotFound, <<>>)
           ELSE \E c \in DOMAIN chans :
                   Return(p, Ok, [ThingID |-> loc[p].tid, ChannelID |-> chans[c].ID])
    /\ UNCHANGED <<thingVars, tconns, tmu, chanVars, cconns, cmu, bridge, cap, cache,
                   consumerVars, ncalls, inflight>>

----------------------------------------------------------------------------
(* The goroutine of NewThingRepository, lines 33-41 *)

(* for conn := range conns *)
Receive ==
    /\ cpc = "recv"
    /\ bridge # <<>>
    /\ conn' = Dequeue(bridge).msg
    /\ bridge' = Dequeue(bridge).rest
    /\ cpc' = "lock"
    /\ UNCHANGED <<thingVars, tconns, tmu, chanVars, cconns, cmu, cap, cache, pc, call,
                   loc, ncalls, inflight>>
    /\ ret' = NoRet

(* trm.mu.Lock() of connect / disconnect, lines 225 and 235 *)
ConsumerLock ==
    /\ cpc = "lock"
    /\ tmu = Free
    /\ tmu' = Consumer
    /\ cpc' = "apply"
    /\ UNCHANGED <<thingVars, tconns, chanVars, cconns, cmu, bridge, cap, cache, conn,
                   pc, call, loc, ncalls, inflight>>
    /\ ret' = NoRet

(* lines 35-39 with the bodies of connect / disconnect, lines 224-243 *)
ConsumerApply ==
    /\ cpc = "apply"
    /\ tconns' = IF ~conn.connected
                 THEN ThingDisconnect(tconns, conn)
                 ELSE ThingConnect(tconns, conn)
    /\ tmu' = UnlockThings(Consumer)
    /\ cpc' = "recv"
    /\ conn' = ZeroConnection
    /\ inflight' = Tail(inflight)
    /\ UNCHANGED <<thingVars, chanVars, cconns, cmu, bridge, cap, cache, pc, call, loc,
                   ncalls>>
    /\ ret' = NoRet

----------------------------------------------------------------------------
(* Specifications *)

Caps == {0, MaxCap}

Init ==
    /\ things = EmptyMap
    /\ tcounter = 0
    /\ tconns = EmptyMap
    /\ tmu = Free
    /\ channels = EmptyMap
    /\ ccounter = 0
    /\ cconns = EmptyMap
    /\ cmu = Free
    /\ bridge = <<>>
    /\ cap \in Caps
    /\ cpc = "recv"
    /\ conn = ZeroConnection
    /\ pc = [p \in Callers |-> "idle"]
    /\ call = [p \in Callers |-> NoCall]
    /\ loc = [p \in Callers |-> NoLoc]
    /\ ret = NoRet
    /\ ncalls = 0
    /\ inflight = <<>>
    /\ cache = EmptyMap

StartConn(p) == Start(p, ConnCalls, MaxCalls)

CallerStep(p) ==
    \/ LockThings(p)
    \/ ThingSaveStep(p)
    \/ ChannelSaveStep(p)
    \/ ChannelRemoveStep(p)
    \/ ChannelRemoveSend(p)
    \/ ConnectChannelStep(p)
    \/ ConnectCheckStep(p)
    \/ ConnectThingStep(p)
    \/ ConnectSend(p)
    \/ ConnectProbeStep(p)
    \/ ConnectPutStep(p)
    \/ DisconnectCheckStep(p)
    \/ DisconnectSend(p)
    \/ DisconnectDeleteStep(p)
    \/ HasThingByIDStep(p)
    \/ ConnByKeyThingStep(p)
    \/ ConnByKeyLookupStep(p)
    \/ ConnByKeyRangeStep(p)

ConsumerStep == Receive \/ ConsumerLock \/ ConsumerApply

Next ==
    \/ \E p \in Callers : StartConn(p)
    \/ \E p \in Callers : CallerStep(p)
    \/ ConsumerStep

Spec == Init /\ [][Next]_vars

(* The Things table alone, one caller at a time *)

TableCallers == {1}

TableIDs == {NoID} \cup IDs

TableThings == {Thing(id, "g1", n, Keys[k], "m1") :
                   id \in TableIDs, n \in {"n1"}, k \in 1..MaxIDs}

TableBatches(S) == UNION {[1..n -> S] : n \in 1..MaxSaveBatch}

TableCalls ==
         {Call("ThingSave", NoID, <<>>, b, <<>>, ZeroThing, "") :
              b \in TableBatches(TableThings)}
    \cup {Call("ThingUpdate", NoID, <<>>, <<>>, <<>>, [t EXCEPT !.Name = "n2"], "") :
              t \in {x \in TableThings : x.ID # NoID}}
    \cup {Call("ThingUpdateKey", NoID, <<id>>, <<>>, <<>>, ZeroThing, Keys[k]) :
              id \in IDs, k \in DOMAIN Keys}
    \cup {Call("ThingRemove", NoID, b, <<>>, <<>>, ZeroThing, "") :
              b \in TableBatches(IDs)}

StartThings(p) == Start(p, TableCalls, MaxTableCalls)

ThingsStep(p) ==
    \/ ThingSaveStep(p)
    \/ ThingUpdateStep(p)
    \/ ThingUpdateKeyStep(p)
    \/ ThingRemoveStep(p)

NextThings ==
    \/ \E p \in TableCallers : StartThings(p)
    \/ \E p \in TableCallers : ThingsStep(p)

SpecThings == Init /\ [][NextThings]_vars

(* Both tables with their paged retrievals, one caller at a time.  Each *)
(* table takes at most MaxStored entities over a run.                   *)

Groups == <<"g1", "g2">>

PageThing(i) ==
    Thing(NoID, Groups[((i - 1) % 2) + 1], Names[((i \div 2) % 2) + 1],
          Keys[((i - 1) % 3) + 1], "m1")

PageChannel(i) ==
    Channel(NoID, Groups[((i - 1) % 2) + 1], Names[((i \div 2) % 2) + 1], "m1")

PageThingBatches ==
    {[i \in 1..n |-> PageThing(i)] : n \in 1..MaxStored}
       \cup {<<PageThing(i)>> : i \in 1..MaxStored}

PageChannelBatches ==
    {[i \in 1..n |-> PageChannel(i)] : n \in 1..MaxStored}
       \cup {<<PageChannel(i)>> : i \in 1..MaxStored}

PageIDs == {Sprintf03(n) : n \in 1..MaxStored}

RemoveBatches == UNION {[1..n -> PageIDs] : n \in 1..MaxRemoveBatch}

Offsets == (0..MaxOffset) \cup {MaxUint64}

Limits == (0..MaxLimit) \cup {MaxUint64}

AdminQueries == {PageMetadata(o, l, "", "", "") : o \in Offsets, l \in Limits}

GroupQueries ==
    {PageMetadata(o, l, f[1], f[2], f[3]) :
        o \in Offsets, l \in Limits,
        f \in {<<"", "", "">>, <<"", "name", "asc">>, <<"n2", "name", "desc">>}}

GroupLists == {<<"g1">>, <<"g2", "g1">>}

PageCalls ==
         {Call("ThingSave", NoID, <<>>, b, <<>>, ZeroThing, "") :
              b \in {x \in PageThingBatches : tcounter + Len(x) <= MaxStored}}
    \cup {Call("ThingRemove", NoID, b, <<>>, <<>>, ZeroThing, "") :
              b \in RemoveBatches}
    \cup {Call("ChannelSave", NoID, <<>>, <<>>, b, ZeroThing, "") :
              b \in {x \in PageChannelBatches : ccounter + Len(x) <= MaxStored}}
    \cup {Call("ChannelRemove", NoID, b, <<>>, <<>>, ZeroThing, "") :
              b \in RemoveBatches}
    \cup {Query("ThingRetrieveByAdmin", NoID, <<>>, pm) : pm \in AdminQueries}
    \cup {Query("ChannelRetrieveByAdmin", NoID, <<>>, pm) : pm \in AdminQueries}
    \cup {Query("ThingRetrieveByGroupIDs", NoID, g, pm) :
              g \in GroupLists, pm \in GroupQueries}
    \cup {Query("ChannelRetrieveByGroupIDs", NoID, g, pm) :
              g \in GroupLists, pm \in GroupQueries}

StartPages(p) == Start(p, PageCalls, MaxPageCalls)

PagesStep(p) ==
    \/ ThingSaveStep(p)
    \/ ThingRemoveStep(p)
    \/ ThingRetrieveByGroupIDsStep(p)
    \/ ThingRetrieveByAdminStep(p)
    \/ ChannelSaveStep(p)
    \/ ChannelRemoveStep(p)
    \/ ChannelRemoveSend(p)
    \/ ChannelRetrieveByGroupIDsStep(p)
    \/ ChannelRetrieveByAdminStep(p)

NextPages ==
    \/ \E p \in TableCallers : StartPages(p)
    \/ \E p \in TableCallers : PagesStep(p)
    \/ ConsumerStep

SpecPages == Init /\ [][NextPages]_vars

(* Connections made, undone and read back through the Thing repository, *)
(* one caller at a time, with the consumer running beside it.           *)

ChannelQueries ==
    {PageMetadata(o, l, "", "", "") : o \in 0..MaxOffset, l \in 0..MaxLimit}

SeqCalls ==
         {Call("ThingSave", NoID, <<>>, b, <<>>, ZeroThing, "") :
              b \in ThingBatches}
    \cup {Call("ChannelSave", NoID, <<>>, <<>>, b, ZeroThing, "") :
              b \in {x \in ChannelBatches : ccounter + Len(x) <= MaxIDs}}
    \cup {Call("ChannelRemove", NoID, <<c>>, <<>>, <<>>, ZeroThing, "") :
              c \in IDs}
    \cup {Call("Connect", c, <<t>>, <<>>, <<>>, ZeroThing, "") :
              c \in IDs, t \in IDs}
    \cup {Call("Disconnect", c, <<t>>, <<>>, <<>>, ZeroThing, "") :
              c \in IDs, t \in IDs}
    \cup {Query("ThingRetrieveByChannel", c, <<>>, pm) :
              c \in IDs, pm \in ChannelQueries}

StartSeq(p) == Start(p, SeqCalls, MaxSeqCalls)

SeqStep(p) ==
    \/ LockThings(p)
    \/ ThingSaveStep(p)
    \/ ThingRetrieveByChannelStep(p)
    \/ ChannelSaveStep(p)
    \/ ChannelRemoveStep(p)
    \/ ChannelRemoveSend(p)
    \/ ConnectChannelStep(p)
    \/ ConnectCheckStep(p)
    \/ ConnectThingStep(p)
    \/ ConnectSend(p)
    \/ ConnectProbeStep(p)
    \/ ConnectPutStep(p)
    \/ DisconnectCheckStep(p)
    \/ DisconnectSend(p)
    \/ DisconnectDeleteStep(p)

NextSeq ==
    \/ \E p \in TableCallers : StartSeq(p)
    \/ \E p \in TableCallers : SeqStep(p)
    \/ ConsumerStep

SpecSeq == Init /\ [][NextSeq]_vars

(* The scheduler lets a goroutine that can run do so: the consumer, and *)
(* a caller inside a call.                                              *)
SpecSeqFair ==
    /\ SpecSeq
    /\ WF_vars(ConsumerStep)
    /\ \A p \in TableCallers : WF_vars(SeqStep(p))

(* Things removed while connections to them are recorded: one caller *)
(* that saves, connects, removes Things and asks both indexes.        *)
RefCalls ==
         {Call("ThingSave", NoID, <<>>, b, <<>>, ZeroThing, "") :
              b \in ThingBatches}
    \cup {Call("ChannelSave", NoID, <<>>, <<>>, b, ZeroThing, "") :
              b \in {x \in ChannelBatches : ccounter + Len(x) <= MaxIDs}}
    \cup {Call("Connect", c, <<t>>, <<>>, <<>>, ZeroThing, "") :
              c \in IDs, t \in IDs}
    \cup {Call("ThingRemove", NoID, <<t>>, <<>>, <<>>, ZeroThing, "") :
              t \in IDs}
    \cup {Call("HasThingByID", c, <<t>>, <<>>, <<>>, ZeroThing, "") :
              c \in IDs, t \in IDs}
    \cup {Query("ThingRetrieveByChannel", c, <<>>, pm) :
              c \in IDs, pm \in ChannelQueries}

StartRefs(p) == Start(p, RefCalls, MaxRefCalls)

RefsStep(p) ==
    \/ LockThings(p)
    \/ ThingSaveStep(p)
    \/ ThingRemoveStep(p)
    \/ ThingRetrieveByChannelStep(p)
    \/ ChannelSaveStep(p)
    \/ ConnectChannelStep(p)
    \/ ConnectCheckStep(p)
    \/ ConnectThingStep(p)
    \/ ConnectSend(p)
    \/ ConnectProbeStep(p)
    \/ ConnectPutStep(p)
    \/ HasThingByIDStep(p)

NextRefs ==
    \/ \E p \in TableCallers : StartRefs(p)
    \/ \E p \in TableCallers : RefsStep(p)
    \/ ConsumerStep

SpecRefs == Init /\ [][NextRefs]_vars

(* channelCacheMock, lines 597-638.  Every method is one critical      *)
(* section of ccm.mu, which no other lock is taken inside of: a method *)
(* is one step.                                                        *)

(* ccm.channels[chanID]: the zero value "" when the key is not there *)
CacheGet(m, chanID) == IF chanID \in DOMAIN m THEN m[chanID] ELSE NoID

(* HasThing, line 621 *)
CacheHasThing(m, chanID, thingID) == CacheGet(m, chanID) = thingID

CacheThingIDs == {NoID} \cup IDs

CacheCall(op, chanID, thingID) ==
    Call(op, chanID, <<thingID>>, <<>>, <<>>, ZeroThing, "")

CacheReturn(p, c, val) ==
    /\ pc[p] = "idle"
    /\ ret' = Ret(p, c, Ok, val)
    /\ UNCHANGED <<thingVars, tconns, tmu, chanVars, cconns, cmu, bridge, cap,
                   consumerVars, pc, call, loc, ncalls, inflight>>

(* Connect, lines 609-615 *)
CacheConnectStep(p) ==
    \E chanID \in IDs, thingID \in CacheThingIDs :
        /\ cache' = Put(cache, chanID, thingID)
        /\ CacheReturn(p, CacheCall("CacheConnect", chanID, thingID), <<>>)

(* HasThing, lines 617-622 *)
CacheHasThingStep(p) ==
    \E chanID \in IDs, thingID \in CacheThingIDs :
        /\ cache' = cache
        /\ CacheReturn(p, CacheCall("CacheHasThing", chanID, thingID),
                       CacheHasThing(cache, chanID, thingID))

(* Disconnect, lines 624-630 *)
CacheDisconnectStep(p) ==
    \E chanID \in IDs, thingID \in CacheThingIDs :
        /\ cache' = Delete(cache, chanID)
        /\ CacheReturn(p, CacheCall("CacheDisconnect", chanID, thingID), <<>>)

(* Remove, lines 632-638 *)
CacheRemoveStep(p) ==
    \E chanID \in IDs :
        /\ cache' = Delete(cache, chanID)
        /\ CacheReturn(p, CacheCall("CacheRemove", chanID, NoID), <<>>)

NextCache ==
    \/ \E p \in Callers : CacheConnectStep(p)
    \/ \E p \in Callers : CacheHasThingStep(p)
    \/ \E p \in Callers : CacheDisconnectStep(p)
    \/ \E p \in Callers : CacheRemoveStep(p)

SpecCache == Init /\ [][NextCache]_vars

----------------------------------------------------------------------------
(* Properties *)

Range(f) == {f[x] : x \in DOMAIN f}

Procs == Callers \cup {Consumer}

AllIdle == \A p \in Callers : pc[p] = "idle"

(* No event is buffered, held by the consumer or still to be applied *)
Drained == bridge = <<>> /\ cpc = "recv" /\ inflight = <<>>

ChannelPairs == {<<c, t>> \in IDs \X IDs : t \in DOMAIN cconns /\ c \in DOMAIN cconns[t]}

ThingPairs == {<<c, t>> \in IDs \X IDs : c \in DOMAIN tconns /\ t \in DOMAIN tconns[c]}

(* C1: a Thing Save whose batch has a key that collides with a stored Thing *)
(* or with an earlier candidate of the batch returns Conflict, and a Save   *)
(* that returns Conflict leaves the Things table as it was before the call. *)
BatchCollides(tbl, ths) ==
    \E i \in DOMAIN ths :
        \/ KeyTaken(tbl, ths[i].Key)
        \/ \E j \in 1..(i - 1) : ths[j].Key = ths[i].Key

C1_SaveAllOrNothing ==
    [][\A p \in Callers :
          pc[p] = "ThingSaveLocked" /\ ret'.p = p =>
             /\ BatchCollides(things, call[p].ths) => ret'.err = ErrConflict
             /\ ret'.err = ErrConflict => things' = things]_vars

(* C2: no two stored Things with different IDs have the same Key, in every *)
(* state reachable by Save, Update, UpdateKey and Remove.                  *)
C2_KeysUnique ==
    \A a, b \in DOMAIN things : a # b => things[a].Key # things[b].Key

(* C3: the step in which Connect(ch, [t]) returns success leads to a state *)
(* where HasThingByID(ch, t) succeeds, and the step in which               *)
(* Disconnect(ch, [t]) returns success leads to a state where              *)
(* HasThingByID(ch, t) is Authorization-denied; HasThingByID reads cconns  *)
(* only.                                                                   *)
C3_ConnectThenHasThing ==
    [][/\ ret'.call.op = "Connect" /\ ret'.err = Ok /\ Len(ret'.call.ids) = 1
          => HasThingByID(cconns', ret'.call.chID, ret'.call.ids[1]) = Ok
       /\ ret'.call.op = "Disconnect" /\ ret'.err = Ok /\ Len(ret'.call.ids) = 1
          => HasThingByID(cconns', ret'.call.chID, ret'.call.ids[1])
                = ErrAuthorization]_vars

(* Disconnect has just returned success, HasThingByID denies the pair, and *)
(* the Thing-side index still holds it: the event is not yet applied.      *)
C3_Witness ==
    /\ ret.call.op = "Disconnect"
    /\ ret.err = Ok
    /\ Len(ret.call.ids) = 1
    /\ HasThingByID(cconns, ret.call.chID, ret.call.ids[1]) = ErrAuthorization
    /\ <<ret.call.chID, ret.call.ids[1]>> \in ThingPairs
    /\ ~Drained

(* C4: once Remove(ch) has returned success, HasThingByID(ch, t) is        *)
(* Authorization-denied for every Thing t, and when all calls have         *)
(* returned and the bridge has drained the Thing-side index holds no pair  *)
(* for ch; Connect calls may run concurrently with the Remove.             *)
RemovedChannels ==
    {c \in {Sprintf03(n) : n \in 1..ccounter} :
        /\ c \notin DOMAIN channels
        /\ \A p \in Callers :
              call[p].op = "ChannelRemove" => c \notin Range(call[p].ids)}

C4_RemoveCascades ==
    \A c \in RemovedChannels :
        /\ \A t \in DOMAIN cconns : HasThingByID(cconns, c, t) = ErrAuthorization
        /\ AllIdle /\ Drained => \A t \in IDs : <<c, t>> \notin ThingPairs

(* C5: whenever all calls have returned and the bridge is empty, the       *)
(* Thing-side index and the Channel-side index hold the same pairs.        *)
C5_IndicesAgree == AllIdle /\ Drained => ThingPairs = ChannelPairs

(* C6: the Channel-side index records at most one Channel against any      *)
(* Thing ID, in every reachable state.                                     *)
C6_OneChannelPerThing ==
    \A t \in DOMAIN cconns : Cardinality(DOMAIN cconns[t]) <= 1

(* C7: a caller that is about to read or write the Channel table's maps    *)
(* (channels, cconns) holds crm.mu, and one that is about to read or write *)
(* the Thing table's maps (things, tconns) holds trm.mu.                   *)
ChannelMapAccess ==
    {"ChannelSaveLocked", "ChannelRemoveLocked", "ConnectChannelLocked",
     "ConnectCheck", "ConnectProbe", "ConnectPut", "DisconnectCheck",
     "DisconnectDelete", "HasThingByID", "ConnByKeyLookup", "ConnByKeyRange"}

ThingMapAccess ==
    {"ThingSaveLocked", "ThingUpdateLocked", "ThingUpdateKeyLocked",
     "ThingRemoveLocked", "ConnectThingLocked", "ConnByKeyThingLocked"}

C7_MapsUnderLock ==
    /\ \A p \in Callers :
          /\ pc[p] \in ChannelMapAccess => cmu = p
          /\ pc[p] \in ThingMapAccess => tmu = p
    /\ cpc = "apply" => tmu = Consumer

(* C8: no process holds one table's lock while it holds or waits for the  *)
(* other table's lock, and whenever some call is in progress or an event  *)
(* is in flight, some process can take a step.                            *)
WantsThings(p) == IF p = Consumer THEN cpc = "lock" ELSE pc[p] \in WaitsThings

WantsChannels(p) == p \in Callers /\ pc[p] \in WaitsChannels

Progress == (\E p \in Callers : CallerStep(p)) \/ ConsumerStep

C8_NoNestedLocking ==
    /\ \A p \in Procs :
          /\ ~(cmu = p /\ (tmu = p \/ WantsThings(p)))
          /\ ~(tmu = p /\ (cmu = p \/ WantsChannels(p)))
    /\ ~(AllIdle /\ Drained) => ENABLED Progress

(* Remove holds crm.mu and cannot send; the consumer, holding an earlier  *)
(* event, waits for trm.mu, which a caller holds.                         *)
C8_Witness ==
    \E p \in Callers :
        /\ pc[p] = "ChannelRemoveSend"
        /\ cmu = p
        /\ ~CanSend
        /\ cpc = "lock"
        /\ tmu \in Callers

(* C9: the event the consumer applies is the oldest event emitted and not *)
(* yet applied; it applies it holding trm.mu, and the Thing-side index    *)
(* changes by that event alone.                                           *)
C9_AppliedInOrder ==
    [][cpc = "apply" /\ cpc' = "recv" =>
          /\ inflight # <<>>
          /\ conn = Head(inflight)
          /\ tmu = Consumer
          /\ tconns' = IF Head(inflight).connected
                       THEN ThingConnect(tconns, Head(inflight))
                       ELSE ThingDisconnect(tconns, Head(inflight))]_vars

(* The consumer is applying an event while a different, later one waits *)
C9_Witness ==
    /\ cpc = "apply"
    /\ Len(inflight) >= 2
    /\ inflight[2] # inflight[1]
    /\ bridge # <<>>

(* C10: when Connect(ch, [t]) for an existing ch finds a Channel recorded *)
(* against t, it returns Conflict in that step, and no step of the call   *)
(* changes the Channel-side index or emits an event.                      *)
C10_DuplicateRejected ==
    [][\A p \in Callers :
          pc'[p] # pc[p] =>
             /\ \/ pc[p] = "idle" /\ call'[p].op = "Connect"
                \/ pc[p] = "ConnectChannelLocked"
                => cconns' = cconns /\ inflight' = inflight /\ bridge' = bridge
             /\ /\ pc[p] = "ConnectCheck"
                /\ Len(call[p].ids) = 1
                /\ call[p].ids[1] \in DOMAIN cconns
                /\ DOMAIN cconns[call[p].ids[1]] # {}
                => /\ ret' = Ret(p, call[p], ErrConflict, <<>>)
                   /\ cconns' = cconns
                   /\ inflight' = inflight
                   /\ bridge' = bridge]_vars

(* Connect for a stored Channel has just returned Conflict for a Thing *)
(* that has a Channel recorded against it.                             *)
C10_Witness ==
    /\ ret.call.op = "Connect"
    /\ ret.err = ErrConflict
    /\ Len(ret.call.ids) = 1
    /\ ret.call.chID \in DOMAIN channels
    /\ ret.call.ids[1] \in DOMAIN cconns
    /\ DOMAIN cconns[ret.call.ids[1]] # {}

(* C11: when UpdateKey(id, k) runs for a stored id and a key k that no  *)
(* stored Thing has, it succeeds; in the state it leaves RetrieveByKey(k) *)
(* returns id, the key the Thing had before does not resolve to id, and   *)
(* every other Thing's record is as it was.                               *)
C11_UpdateKeyRebinds ==
    [][\A p \in Callers :
          pc[p] = "ThingUpdateKeyLocked" /\ ret'.p = p =>
             LET id == call[p].ids[1]
                 k == call[p].key
             IN  /\ id \in DOMAIN things
                 /\ \A x \in DOMAIN things : things[x].Key # k
                 => /\ ret'.err = Ok
                    /\ ThingRetrieveByKey(things', k) = {[id |-> id, err |-> Ok]}
                    /\ [id |-> id, err |-> Ok]
                          \notin ThingRetrieveByKey(things', things[id].Key)
                    /\ DOMAIN things' = DOMAIN things
                    /\ \A x \in DOMAIN things \ {id} : things'[x] = things[x]]_vars

(* UpdateKey has just succeeded on a table of two Things, and the new key *)
(* resolves to the Thing it was given to.                                 *)
C11_Witness ==
    /\ ret.call.op = "ThingUpdateKey"
    /\ ret.err = Ok
    /\ Cardinality(DOMAIN things) >= 2
    /\ ThingRetrieveByKey(things, ret.call.key)
          = {[id |-> ret.call.ids[1], err |-> Ok]}

(* C12: after a successful Save of one Thing T with an empty ID,          *)
(* RetrieveByID of the returned ID yields T in every field but ID, and    *)
(* the returned ID is the decimal rendering, zero-padded to three digits, *)
(* of the counter after its increment.                                    *)
C12_SaveRoundTrip ==
    [][\A p \in Callers :
          /\ pc[p] = "ThingSaveLocked"
          /\ ret'.p = p
          /\ ret'.err = Ok
          /\ Len(call[p].ths) = 1
          /\ call[p].ths[1].ID = NoID
          => LET T == call[p].ths[1]
                 id == ret'.val[1].ID
                 r == ThingRetrieveByID(things', id)
             IN  /\ r.err = Ok
                 /\ r.thing = [T EXCEPT !.ID = id]
                 /\ tcounter' = tcounter + 1
                 /\ ParseID(id) = tcounter'
                 /\ \A j \in DOMAIN id : id[j] \in 0..9
                 /\ Len(id) >= 3
                 /\ Len(id) > 3 => id[1] # 0]_vars

(* The second Save of a Thing without an ID has just succeeded *)
C12_Witness ==
    /\ ret.call.op = "ThingSave"
    /\ ret.err = Ok
    /\ Len(ret.call.ths) = 1
    /\ ret.call.ths[1].ID = NoID
    /\ tcounter >= 2
    /\ ret.val[1].ID = <<0, 0, tcounter>>
    /\ ThingRetrieveByID(things, ret.val[1].ID).err = Ok

(* C18: UpdateKey(id, k) returns Conflict whenever some stored Thing has  *)
(* key k, be it id itself or with id not stored; otherwise NotFound when  *)
(* id is not stored; otherwise it sets the key.  On either error the      *)
(* table is as it was.                                                    *)
C18_UpdateKeyPrecedence ==
    [][\A p \in Callers :
          pc[p] = "ThingUpdateKeyLocked" /\ ret'.p = p =>
             LET id == call[p].ids[1]
                 k == call[p].key
                 held == \E x \in DOMAIN things : things[x].Key = k
             IN  /\ held => ret'.err = ErrConflict
                 /\ ~held /\ id \notin DOMAIN things => ret'.err = ErrNotFound
                 /\ ~held /\ id \in DOMAIN things
                    => ret'.err = Ok /\ things'[id].Key = k
                 /\ ret'.err # Ok => things' = things]_vars

(* UpdateKey has just returned Conflict for an id that is not stored *)
C18_Witness ==
    /\ ret.call.op = "ThingUpdateKey"
    /\ ret.err = ErrConflict
    /\ ret.call.ids[1] \notin DOMAIN things
    /\ \E x \in DOMAIN things : things[x].Key = ret.call.key

(* C13: RetrieveByAdmin({Offset: o, Limit: l}) on a table of n entities   *)
(* returns exactly min(l, max(0, n - o)) entities, distinct and stored;   *)
(* its Total is the table's counter; the counter never decreases, and a   *)
(* step that removes nothing moves it by as much as the table grows, so   *)
(* that it is n as long as nothing was removed.  For both tables.         *)
Injective(q) == \A i, j \in DOMAIN q : i # j => q[i] # q[j]

AdminCount(n, pm) ==
    LET rest == IF ULess(pm.Offset, n) THEN n - pm.Offset ELSE 0
    IN  IF ULess(pm.Limit, rest) THEN pm.Limit ELSE rest

AdminPageAsClaimed(tbl, cnt, pm, page) ==
    /\ Len(page.items) = AdminCount(Cardinality(DOMAIN tbl), pm)
    /\ Injective(page.items)
    /\ Range(page.items) \subseteq Range(tbl)
    /\ page.Total = cnt

CounterAsClaimed(tbl, cnt, tblNext, cntNext) ==
    /\ cntNext >= cnt
    /\ Cardinality(DOMAIN tblNext) >= Cardinality(DOMAIN tbl)
       => cntNext - cnt = Cardinality(DOMAIN tblNext) - Cardinality(DOMAIN tbl)

C13_AdminWindow ==
    [][/\ \A p \in Callers :
             /\ pc[p] = "ThingRetrieveByAdminLocked" /\ ret'.p = p
                => AdminPageAsClaimed(things, tcounter, call[p].pm, ret'.val)
             /\ pc[p] = "ChannelRetrieveByAdminLocked" /\ ret'.p = p
                => AdminPageAsClaimed(channels, ccounter, call[p].pm, ret'.val)
       /\ CounterAsClaimed(things, tcounter, things', tcounter')
       /\ CounterAsClaimed(channels, ccounter, channels', ccounter')]_vars

(* C14: for both tables, RetrieveByGroupIDs(groups, pm) with pm.Limit = 0 *)
(* returns a page without entities and no error, whatever the non-empty   *)
(* groups, the offset, the name filter and the table's content.           *)
C14_ZeroLimitEmptyPage ==
    [][\A p \in Callers :
          /\ pc[p] \in {"ThingRetrieveByGroupIDsLocked",
                        "ChannelRetrieveByGroupIDsLocked"}
          /\ ret'.p = p
          /\ call[p].pm.Limit = 0
          /\ call[p].groupIDs # <<>>
          => ret'.err = Ok /\ ret'.val.items = <<>>]_vars

(* RetrieveByGroupIDs has just returned an empty page for a zero limit, *)
(* a zero offset and no name filter, and the table holds a Thing of a   *)
(* requested group.                                                     *)
C14_Witness ==
    /\ ret.call.op = "ThingRetrieveByGroupIDs"
    /\ ret.call.pm.Limit = 0
    /\ ret.call.pm.Offset = 0
    /\ ret.call.pm.Name = ""
    /\ ret.err = Ok
    /\ ret.val.items = <<>>
    /\ \E k \in DOMAIN things : things[k].GroupID \in Range(ret.call.groupIDs)

(* C19: RetrieveByGroupIDs with Limit > 0 and no name filter returns      *)
(* exactly the stored entities whose GroupID is a requested group and     *)
(* whose ordinal n (the number its ID carries) is in the window.  As      *)
(* stated, the window is offset+1 <= n < offset+limit, and an entity with *)
(* ordinal offset+limit is not returned.  An offset or limit kept as a    *)
(* negative representative is close to 2^64 and above every ordinal.      *)
InGroups(tbl, groupIDs) == {e \in Range(tbl) : e.GroupID \in Range(groupIDs)}

GroupPageAsStated(tbl, groupIDs, pm, page) ==
    Range(page.items) =
       {e \in InGroups(tbl, groupIDs) :
           /\ pm.Offset >= 0
           /\ pm.Offset + 1 <= ParseID(e.ID)
           /\ pm.Limit < 0 \/ ParseID(e.ID) < pm.Offset + pm.Limit}

C19_GroupWindowAsStated ==
    [][\A p \in Callers :
          /\ ret'.p = p
          /\ call[p].pm.Limit # 0
          /\ call[p].pm.Name = ""
          => /\ pc[p] = "ThingRetrieveByGroupIDsLocked"
                => GroupPageAsStated(things, call[p].groupIDs, call[p].pm, ret'.val)
             /\ pc[p] = "ChannelRetrieveByGroupIDsLocked"
                => GroupPageAsStated(channels, call[p].groupIDs, call[p].pm, ret'.val)]_vars

(* C19, amended: the window is first <= n < last with first = offset+1    *)
(* and last = first+limit, both sums taken modulo 2^64; when neither sum  *)
(* wraps around that is offset+1 <= n <= offset+limit, so that an entity  *)
(* with ordinal offset+limit is returned.                                 *)
GroupPageAmended(tbl, groupIDs, pm, page) ==
    Range(page.items) =
       {e \in InGroups(tbl, groupIDs) :
           IF pm.Offset >= 0 /\ pm.Limit > 0
           THEN /\ pm.Offset + 1 <= ParseID(e.ID)
                /\ ParseID(e.ID) <= pm.Offset + pm.Limit
           ELSE LET first == UAdd(pm.Offset, 1)
                    last == UAdd(first, pm.Limit)
                IN  ~ULess(ParseID(e.ID), first) /\ ULess(ParseID(e.ID), last)}

C19_GroupWindow ==
    [][\A p \in Callers :
          /\ ret'.p = p
          /\ call[p].pm.Limit # 0
          /\ call[p].pm.Name = ""
          => /\ pc[p] = "ThingRetrieveByGroupIDsLocked"
                => GroupPageAmended(things, call[p].groupIDs, call[p].pm, ret'.val)
             /\ pc[p] = "ChannelRetrieveByGroupIDsLocked"
                => GroupPageAmended(channels, call[p].groupIDs, call[p].pm, ret'.val)]_vars

(* RetrieveByGroupIDs has just returned the Thing whose ordinal is        *)
(* offset+limit and left out a Thing of a requested group above the       *)
(* window.                                                                *)
C19_Witness ==
    /\ ret.call.op = "ThingRetrieveByGroupIDs"
    /\ ret.call.pm.Limit > 0
    /\ ret.call.pm.Name = ""
    /\ \E e \in Range(ret.val.items) :
          ParseID(e.ID) = ret.call.pm.Offset + ret.call.pm.Limit
    /\ \E e \in InGroups(things, ret.call.groupIDs) :
          /\ ParseID(e.ID) > ret.call.pm.Offset + ret.call.pm.Limit
          /\ e \notin Range(ret.val.items)

(* C15: Remove deletes the IDs in argument order.  If the k-th is the     *)
(* first that is not in the table when Remove comes to it, the call       *)
(* returns NotFound, the IDs before it are removed and every other entity *)
(* is left in the table; without such an ID all are removed.  Channel     *)
(* Remove emits one event per Channel it deletes, after deleting it and   *)
(* before it looks at the next ID, and no other.                          *)
MissingAt(tbl, ids, k) ==
    ids[k] \notin DOMAIN tbl \/ \E j \in 1..(k - 1) : ids[j] = ids[k]

RemovedPrefix(tbl, ids) ==
    {ids[j] : j \in {i \in DOMAIN ids : \A k \in 1..i : ~MissingAt(tbl, ids, k)}}

C15_RemoveFailFast ==
    [][\A p \in Callers :
          LET ids == call[p].ids
              i == loc[p].i
          IN  /\ pc[p] = "ThingRemoveLocked" /\ ret'.p = p
                 => /\ ret'.err = IF \E k \in DOMAIN ids : MissingAt(things, ids, k)
                                  THEN ErrNotFound
                                  ELSE Ok
                    /\ DOMAIN things' = DOMAIN things \ RemovedPrefix(things, ids)
                    /\ \A x \in DOMAIN things' : things'[x] = things[x]
              /\ pc[p] = "ChannelRemoveLocked"
                 => \A j \in 1..(i - 1) : ids[j] \notin DOMAIN channels
              /\ pc[p] = "ChannelRemoveLocked" /\ pc'[p] # pc[p]
                 => /\ inflight' = inflight
                    /\ IF i > Len(ids)
                       THEN ret'.err = Ok /\ channels' = channels
                       ELSE IF ids[i] \notin DOMAIN channels
                       THEN ret'.err = ErrNotFound /\ channels' = channels
                       ELSE /\ pc'[p] = "ChannelRemoveSend"
                            /\ loc'[p].i = i
                            /\ DOMAIN channels' = DOMAIN channels \ {ids[i]}
                            /\ \A x \in DOMAIN channels' : channels'[x] = channels[x]
              /\ pc[p] = "ChannelRemoveSend" /\ pc'[p] # pc[p]
                 => /\ inflight' = Append(inflight, Connection(ids[i], ZeroThing, FALSE))
                    /\ channels' = channels
                    /\ IF i = Len(ids)
                       THEN ret'.p = p /\ ret'.err = Ok
                       ELSE pc'[p] = "ChannelRemoveLocked" /\ loc'[p].i = i + 1]_vars

(* Channel Remove of three different IDs has just returned NotFound at  *)
(* the second: the first is deleted and its event is the last emitted,  *)
(* the third is still stored.                                           *)
C15_Witness ==
    /\ ret.call.op = "ChannelRemove"
    /\ ret.err = ErrNotFound
    /\ Len(ret.call.ids) = 3
    /\ Cardinality(Range(ret.call.ids)) = 3
    /\ ParseID(ret.call.ids[1]) <= ccounter
    /\ ret.call.ids[1] \notin DOMAIN channels
    /\ ret.call.ids[2] \notin DOMAIN channels
    /\ ret.call.ids[3] \in DOMAIN channels
    /\ inflight # <<>>
    /\ inflight[Len(inflight)] = Connection(ret.call.ids[1], ZeroThing, FALSE)

(* C16: Connect returns Conflict for a Thing only when a Channel is       *)
(* recorded against it at that moment: once Connect(ch, [t]) has been     *)
(* undone by Disconnect(ch, [t]) or by the removal of ch, so that no      *)
(* Channel is recorded against t, a Connect for t does not return         *)
(* Conflict.                                                              *)
C16_ConflictOnlyWhileRecorded ==
    [][\A p \in Callers :
          /\ pc[p] = "ConnectCheck"
          /\ ret'.p = p
          /\ ret'.err = ErrConflict
          => \E t \in Range(call[p].ids) :
                t \in DOMAIN cconns /\ DOMAIN cconns[t] # {}]_vars

(* C20: RetrieveByChannel(ch, pm) with pm.Limit = 0 returns no Things, *)
(* whatever is connected to ch.                                        *)
C20_ZeroLimitNoThings ==
    [][\A p \in Callers :
          /\ pc[p] = "ThingRetrieveByChannelLocked"
          /\ ret'.p = p
          /\ call[p].pm.Limit = 0
          => ret'.val.items = <<>>]_vars

(* C20, amended: RetrieveByChannel(ch, pm) with pm.Limit = 0 returns     *)
(* every Thing that the Thing-side index holds for ch, each once,        *)
(* whatever the offset.                                                  *)
C20_ZeroLimitAllThings ==
    [][\A p \in Callers :
          /\ pc[p] = "ThingRetrieveByChannelLocked"
          /\ ret'.p = p
          /\ call[p].pm.Limit = 0
          => /\ ret'.err = Ok
             /\ Range(ret'.val.items) =
                   {tconns[c][t] : <<c, t>> \in {x \in ThingPairs : x[1] = call[p].chID}}
             /\ Len(ret'.val.items) = Cardinality(Range(ret'.val.items))]_vars

(* RetrieveByChannel has just returned a connected Thing for a zero limit *)
(* and an offset that is not below the Thing's ordinal.                   *)
C20_Witness ==
    /\ ret.call.op = "ThingRetrieveByChannel"
    /\ ret.call.pm.Limit = 0
    /\ \E i \in DOMAIN ret.val.items :
          /\ <<ret.call.chID, ret.val.items[i].ID>> \in ThingPairs
          /\ ParseID(ret.val.items[i].ID) <= ret.call.pm.Offset

(* C17: RetrieveByChannel(ch) with a window that covers t comes to      *)
(* include t only in the step in which the consumer applies the          *)
(* connected=true event of (ch, t), which it has dequeued before; and,   *)
(* the consumer and the caller being scheduled, every such event that    *)
(* has been emitted leads to a state in which RetrieveByChannel(ch)      *)
(* includes t.                                                           *)
ConnectEmitted(c, t) ==
    \E i \in DOMAIN inflight :
        inflight[i].connected /\ inflight[i].chanID = c /\ inflight[i].thing.ID = t

Covering(t) == PageMetadata(0, ParseID(t), "", "", "")

Includes(c, t) ==
    \A page \in ThingRetrieveByChannel(tconns, tcounter, c, Covering(t)) :
        \E i \in DOMAIN page.items : page.items[i].ID = t

C17_EventualVisibility ==
    /\ [][\A c, t \in IDs :
             ~Includes(c, t) /\ Includes(c, t)' =>
                /\ cpc = "apply"
                /\ cpc' = "recv"
                /\ conn = Head(inflight)
                /\ conn.connected
                /\ conn.chanID = c
                /\ conn.thing.ID = t]_vars
    /\ \A c, t \in IDs : ConnectEmitted(c, t) ~> Includes(c, t)

(* RetrieveByChannel has just returned a page without t for a window that *)
(* covers t, after Connect recorded (ch, t) on the Channel side and while *)
(* the event is still to be applied.                                      *)
C17_Witness ==
    /\ ret.call.op = "ThingRetrieveByChannel"
    /\ \E t \in IDs :
          /\ ret.call.pm = Covering(t)
          /\ <<ret.call.chID, t>> \in ChannelPairs
          /\ ConnectEmitted(ret.call.chID, t)
          /\ \A i \in DOMAIN ret.val.items : ret.val.items[i].ID # t

(* C21: the cache holds one Thing per Channel.  Before any operation     *)
(* HasThing(ch, t) is false for all ch and t; after Connect(ch, t),      *)
(* HasThing(ch, x) is true exactly for x = t, whatever was connected     *)
(* before; after Disconnect(ch, x) and after Remove(ch), HasThing(ch, t) *)
(* is false for every Thing ID t; HasThing returns that answer and       *)
(* changes nothing; an operation on ch leaves every other key as it was. *)
CacheKeyAsIs(m, n, chanID) ==
    /\ chanID \in DOMAIN m <=> chanID \in DOMAIN n
    /\ chanID \in DOMAIN m => m[chanID] = n[chanID]

C21_CacheOneThingPerChannel ==
    /\ \A ch \in IDs, t \in CacheThingIDs : ~CacheHasThing(cache, ch, t)
    /\ [][LET op == ret'.call.op
              ch == ret'.call.chID
          IN  /\ op = "CacheConnect"
                 => \A t \in CacheThingIDs :
                       CacheHasThing(cache', ch, t) <=> t = ret'.call.ids[1]
              /\ op \in {"CacheDisconnect", "CacheRemove"}
                 => \A t \in CacheThingIDs : ~CacheHasThing(cache', ch, t)
              /\ op = "CacheHasThing"
                 => /\ ret'.val = CacheHasThing(cache, ch, ret'.call.ids[1])
                    /\ cache' = cache
              /\ \A k \in IDs \ {ch} : CacheKeyAsIs(cache, cache', k)]_vars


(* C22: generated identifiers never collide with stored entities. Callers may
   hand in entities with IDs of their own; whenever a Save succeeds, every
   entity that was handed in with an empty ID comes back with an ID that no
   entity of the table had before the call, so that the Save replaced no
   stored entity. *)
GeneratedAreFresh(tbl, ths, out) ==
    \A i \in 1..Len(ths) : ths[i].ID = NoID => out[i].ID \notin DOMAIN tbl

C22_GeneratedIDsFresh ==
    [][(ret'.call.op = "ThingSave" /\ ret'.err = Ok)
          => GeneratedAreFresh(things, ret'.call.ths, ret'.val)]_vars


(* C23: referential integrity of connections to Things. In every reachable
   state, every Thing ID for which HasThingByID succeeds with some Channel,
   and every Thing held in the Thing-side index, which is where
   RetrieveByChannel takes its Things from, is an entity stored in the
   Things table; so once a Thing is removed HasThingByID fails for it and
   RetrieveByChannel does not return it. *)
C23_ConnectedThingsStored ==
    /\ \A ch \in IDs, t \in IDs :
          HasThingByID(cconns, ch, t) = Ok => t \in DOMAIN things
    /\ \A ch \in DOMAIN tconns :
          \A t \in DOMAIN tconns[ch] : t \in DOMAIN things

====
